---- MODULE Spec2Model ----
(***************************************************************************)
(* A model of package spa (src/spa.go): the cache build done by NewHandler *)
(* (appendDirEntries / appendFileEntry) and the request handling of        *)
(* handler.ServeHTTP with the per-entry identity and gzip closures.        *)
(*                                                                         *)
(* Strings the code inspects character by character (paths, file names,   *)
(* the Accept-Encoding value) are sequences of one-character strings.      *)
(* Strings the code only compares for equality (content types, log and    *)
(* error kinds) are TLA+ strings.                                          *)
(***************************************************************************)
EXTENDS Integers, Sequences, FiniteSets, TLC

\* ------------------------------------------------------------------ bounds

\* Longest request path enumerated over PathAlphabet.
MaxPathLen == 3
\* Number of requests that may be in flight at once in SpecConc.
MaxReq == 2

\* ------------------------------------------------------- program constants

tcpPacketDataSize == 1460
StatusOK == 200
StatusInternalServerError == 500

defaultWebpath == <<"/", "i", "n", "d", "e", "x", ".", "h", "t", "m", "l">>

\* ---------------------------------------------------------- string helpers

\* strings.HasPrefix(s, prefix)
HasPrefix(s, prefix) ==
  /\ Len(s) >= Len(prefix)
  /\ SubSeq(s, 1, Len(prefix)) = prefix

\* strings.Contains(s, substr)
Contains(s, substr) ==
  \E i \in 0..(Len(s) - Len(substr)) : SubSeq(s, i + 1, i + Len(substr)) = substr

\* Go's integer division truncates toward zero (TLA+'s \div floors).
GoDiv(a, b) == IF a >= 0 THEN a \div b ELSE -((-a) \div b)

\* path.IsAbs(p)
IsAbs(p) == Len(p) > 0 /\ p[1] = "/"

\* The backtracking loop of path.Clean for a ".." element: out.w was already
\* decremented to w; drop characters down to the previous separator.
RECURSIVE CleanBacktrack(_, _, _)
CleanBacktrack(out, w, dotdot) ==
  IF w > dotdot /\ out[w + 1] # "/"
  THEN CleanBacktrack(out, w - 1, dotdot)
  ELSE SubSeq(out, 1, w)

\* Index (0-based) of the first "/" at or after r, or Len(p).
RECURSIVE SegEnd(_, _)
SegEnd(p, r) ==
  IF r < Len(p) /\ p[r + 1] # "/" THEN SegEnd(p, r + 1) ELSE r

\* The main loop of path.Clean; r and dotdot are 0-based as in the library.
RECURSIVE CleanLoop(_, _, _, _)
CleanLoop(p, r, out, dotdot) ==
  LET n == Len(p)
      rooted == p[1] = "/"
  IN IF r >= n THEN out
     ELSE IF p[r + 1] = "/" THEN CleanLoop(p, r + 1, out, dotdot)
     ELSE IF p[r + 1] = "." /\ (r + 1 = n \/ p[r + 2] = "/")
          THEN CleanLoop(p, r + 1, out, dotdot)
     ELSE IF p[r + 1] = "." /\ p[r + 2] = "." /\ (r + 2 = n \/ p[r + 3] = "/")
          THEN IF Len(out) > dotdot
               THEN CleanLoop(p, r + 2, CleanBacktrack(out, Len(out) - 1, dotdot), dotdot)
               ELSE IF ~rooted
                    THEN LET o2 == (IF Len(out) > 0 THEN Append(out, "/") ELSE out)
                                   \o <<".", ".">>
                         IN CleanLoop(p, r + 2, o2, Len(o2))
                    ELSE CleanLoop(p, r + 2, out, dotdot)
     ELSE LET o1 == IF (rooted /\ Len(out) # 1) \/ (~rooted /\ Len(out) # 0)
                    THEN Append(out, "/") ELSE out
              e == SegEnd(p, r)
          IN CleanLoop(p, e, o1 \o SubSeq(p, r + 1, e), dotdot)

\* path.Clean(p)
Clean(p) ==
  IF p = <<>> THEN <<".">>
  ELSE LET rooted == p[1] = "/"
           out == IF rooted THEN CleanLoop(p, 1, <<"/">>, 1)
                            ELSE CleanLoop(p, 0, <<>>, 0)
       IN IF out = <<>> THEN <<".">> ELSE out

\* path.Join(elem, name) and filepath.Join(elem, name) for two non-empty
\* elements: join with a separator, then Clean.
Join(elem, name) == Clean(elem \o <<"/">> \o name)

\* filepath.Ext(fpath): the suffix from the last "." of the last element.
RECURSIVE ExtFrom(_, _)
ExtFrom(fpath, i) ==
  IF i < 1 \/ fpath[i] = "/" THEN <<>>
  ELSE IF fpath[i] = "." THEN SubSeq(fpath, i, Len(fpath))
  ELSE ExtFrom(fpath, i - 1)

Ext(fpath) == ExtFrom(fpath, Len(fpath))

\* The extension registry: the entries init() adds, and ".gif" of the
\* library's built-in table.
MimeTypes ==
  { <<<<".", "h", "t", "m", "l">>, "text/html">>,
    <<<<".", "j", "s">>, "text/javascript">>,
    <<<<".", "m", "j", "s">>, "text/javascript">>,
    <<<<".", "t", "x", "t">>, "text/plain">>,
    <<<<".", "x", "h", "t", "m", "l">>, "application/xhtml+xml">>,
    <<<<".", "x", "m", "l">>, "application/xml">>,
    <<<<".", "j", "s", "o", "n">>, "application/json">>,
    <<<<".", "z", "i", "p">>, "application/zip">>,
    <<<<".", "m", "p", "3">>, "audio/mpeg">>,
    <<<<".", "m", "p", "4">>, "video/mp4">>,
    <<<<".", "m", "p", "e", "g">>, "video/mpeg">>,
    <<<<".", "p", "n", "g">>, "image/png">>,
    <<<<".", "j", "p", "g">>, "image/jpeg">>,
    <<<<".", "j", "p", "e", "g">>, "image/jpeg">>,
    <<<<".", "t", "i", "f">>, "image/tiff">>,
    <<<<".", "t", "i", "f", "f">>, "image/tiff">>,
    <<<<".", "t", "t", "f">>, "font/ttf">>,
    <<<<".", "g", "i", "f">>, "image/gif">> }

\* mime.TypeByExtension(ext): "" when the extension is not registered.
TypeByExtension(ext) ==
  IF \E m \in MimeTypes : m[1] = ext
  THEN (CHOOSE m \in MimeTypes : m[1] = ext)[2]
  ELSE ""

\* contentTypeIsAlreadyCompressed with "image/gif" missing from the list.
contentTypeIsAlreadyCompressedNoGif(contentType) ==
  contentType \in {"image/jpeg", "image/png", "audio/mpeg", "video/mp4"}

contentTypeIsAlreadyCompressed(contentType) ==
  contentType \in {"image/jpeg", "image/png", "image/gif", "audio/mpeg", "video/mp4"}

\* ------------------------------------------------------------ file system

\* A directory entry as os.ReadDir and os.Open see it.  kind is "dir",
\* "file" (a regular file) or "symlink" (a non-directory entry that os.Open
\* follows).  dirOk: os.ReadDir succeeds; openOk: os.Open succeeds; readOk:
\* io.ReadAll succeeds; gzipOk: the compressor reports no error.  id and len
\* stand for the file's bytes, gzlen for the length of their gzip encoding.
Entry(name, kind, id, len, gzlen, entries) ==
  [name |-> name, kind |-> kind, dirOk |-> TRUE, openOk |-> TRUE,
   readOk |-> TRUE, gzipOk |-> TRUE, id |-> id, len |-> len,
   gzlen |-> gzlen, entries |-> entries]

File(name, id, len, gzlen) == Entry(name, "file", id, len, gzlen, <<>>)
Symlink(name, id, len, gzlen) == Entry(name, "symlink", id, len, gzlen, <<>>)
Dir(name, entries) == Entry(name, "dir", "", 0, 0, entries)

\* dirEntry.IsDir()
IsDir(dirEntry) == dirEntry.kind = "dir"

\* The bytes of a file and of its gzip encoding, as the closures hold them.
Bytes(id, enc, len) == [id |-> id, enc |-> enc, len |-> len]

\* ---------------------------------------------------------------- build

\* The build's state while walking: the slice, the error ("nil" for none),
\* the lines logged, and the number of os.ReadDir / os.Open calls made.
WalkState(slice, err, log, fsCalls) ==
  [slice |-> slice, err |-> err, log |-> log, fsCalls |-> fsCalls]

Fail(st, err) == WalkState(<<>>, err, st.log, st.fsCalls)

Logged(st, ev, fpath) ==
  [st EXCEPT !.log = Append(@, [ev |-> ev, fpath |-> fpath])]

\* ShouldServeCompressed with >= for >.
ShouldServeCompressedGeq(ce) ==
  GoDiv(ce.identitySize, tcpPacketDataSize) >= GoDiv(ce.compressedSize, tcpPacketDataSize)

\* Line 210: the comparison reads ce.compressedSize, which is still the -1
\* the entry was created with, and not the local compressedSize.
ShouldServeCompressed(ce) ==
  GoDiv(ce.identitySize, tcpPacketDataSize) > GoDiv(ce.compressedSize, tcpPacketDataSize)

\* GzipHandlerOf keeping the closure whatever was decided.
GzipHandlerRetained(should, closure) == <<closure>>

\* Lines 216-230: ce.gzipHandler is set only when shouldServeCompressed.
GzipHandlerOf(should, closure) == IF should THEN <<closure>> ELSE <<>>

\* The cacheEntry appendFileEntry builds from the bytes read (lines 170-230).
\* A handler is <<>> for nil, or <<closure>> with what the closure captured.
MakeCacheEntry(urlpath, ct, bs, gbs) ==
  LET ce0 == [urlpath |-> urlpath,
              contentType |-> ct,
              identitySize |-> bs.len,
              compressedSize |-> -1]
      compressedSize == gbs.len
      should == ShouldServeCompressed(ce0) /\ ~contentTypeIsAlreadyCompressed(ct)
  IN [urlpath |-> urlpath,
      contentType |-> ct,
      identitySize |-> bs.len,
      identityHandler |-> <<[contentType |-> ct, urlpath |-> urlpath, bytes |-> bs]>>,
      shouldServeCompressed |-> should,
      compressedSize |-> IF should THEN compressedSize ELSE ce0.compressedSize,
      gzipHandler |-> GzipHandlerOf(should,
                        [contentType |-> ct, urlpath |-> urlpath, bytes |-> gbs])]

\* Compress with gbsb.Bytes() taken before the writer was closed: the stream
\* lacks its last block and its 8-byte trailer.
CompressUnclosed(bs, gzlen) == Bytes(bs.id, "gzip, unclosed", gzlen - 8)

\* Lines 189-208: the gzip stream of bs, of gzlen bytes, complete because
\* the deferred wr.Close() ran before gbsb.Bytes() is taken.
Compress(bs, gzlen) == Bytes(bs.id, "gzip", gzlen)

appendFileEntry(st, urlpath, fpath, f) ==
  LET s1 == [Logged(st, "found file", fpath) EXCEPT !.fsCalls = @ + 1]
      ct == TypeByExtension(Ext(fpath))
      bs == Bytes(f.id, "identity", f.len)
      gbs == Compress(bs, f.gzlen)
      ce == MakeCacheEntry(urlpath, ct, bs, gbs)
  IN IF ~f.openOk THEN Fail(s1, "open")
     ELSE IF ~f.readOk THEN Fail(s1, "read")
     ELSE IF ~f.gzipOk THEN Fail(s1, "gzip")
     ELSE [Logged(s1, "cached file", fpath) EXCEPT !.slice = Append(@, ce)]

RECURSIVE appendDirEntries(_, _, _, _)
RECURSIVE DirLoop(_, _, _, _, _)

\* Propagate returning what was collected and no error.
PropagateSwallowed(st) == [st EXCEPT !.err = "nil"]

\* What appendDirEntries does with the error of a nested call (lines 137-139
\* and 144-146): give up.
Propagate(st) == st

\* Skipped with the test for "_" left out.
SkippedDotOnly(name) == HasPrefix(name, <<".">>)

\* Lines 123-131: the names appendDirEntries passes over.
Skipped(name) == HasPrefix(name, <<".">>) \/ HasPrefix(name, <<"_">>)

\* The loop of appendDirEntries over dirEntries from index i on.
DirLoop(st, urlpath, fpath, dirEntries, i) ==
  IF i > Len(dirEntries) THEN st
  ELSE LET dirEntry == dirEntries[i]
           name == dirEntry.name
           subFpath == Join(fpath, name)
           subUpath == Join(urlpath, name)
       IN IF Skipped(name)
          THEN DirLoop(Logged(st, "skipping file", subFpath),
                       urlpath, fpath, dirEntries, i + 1)
          ELSE LET s1 == IF IsDir(dirEntry)
                         THEN appendDirEntries(st, subUpath, subFpath, dirEntry)
                         ELSE appendFileEntry(st, subUpath, subFpath, dirEntry)
               IN IF s1.err # "nil" THEN Propagate(s1)
                  ELSE DirLoop(s1, urlpath, fpath, dirEntries, i + 1)

appendDirEntries(st, urlpath, fpath, d) ==
  LET s1 == [Logged(st, "reading directory", fpath) EXCEPT !.fsCalls = @ + 1]
  IN IF ~d.dirOk THEN Fail(s1, "read directory")
     ELSE DirLoop(s1, urlpath, fpath, d.entries, 1)

\* The map NewHandler fills from the slice: a later entry with the same
\* urlpath replaces an earlier one.
CacheOf(slice) ==
  [k \in {slice[i].urlpath : i \in 1..Len(slice)} |->
     slice[CHOOSE i \in 1..Len(slice) :
             /\ slice[i].urlpath = k
             /\ \A j \in 1..Len(slice) : slice[j].urlpath = k => j <= i]]

\* HasDefault with the check left out.
HasDefaultUnchecked(c) == TRUE

\* The check of lines 38-40.
HasDefault(c) == defaultWebpath \in DOMAIN c

\* NewHandler(dir): the walk's result, the cache, and what is returned.
NewHandlerResult(dir, root) ==
  LET st == appendDirEntries(WalkState(<<>>, "nil", <<>>, 0), <<"/">>, dir, root)
      c == CacheOf(st.slice)
  IN IF st.err # "nil"
     THEN [st |-> st, cache |-> <<>>, handler |-> "nil", err |-> st.err]
     ELSE IF ~HasDefault(c)
     THEN [st |-> st, cache |-> <<>>, handler |-> "nil", err |-> "root not found"]
     ELSE [st |-> st, cache |-> c, handler |-> "handler", err |-> "nil"]

\* ---------------------------------------------------- directory trees

N_index == <<"i", "n", "d", "e", "x", ".", "h", "t", "m", "l">>
N_f == <<"f">>

\* Extensions of the one file whose name, sizes and faults vary.
XExts ==
  { <<>>, <<".", "j", "s">>, <<".", "t", "i", "f">>, <<".", "p", "n", "g">>,
    <<".", "j", "p", "g">>, <<".", "g", "i", "f">>, <<".", "m", "p", "3">>,
    <<".", "m", "p", "4">> }

\* <<plain size, gzip size>>: around the 1460-byte packet boundaries, and an
\* incompressible file whose gzip form is the larger one.
SizePairs ==
  { <<0, 23>>, <<1400, 1200>>, <<1460, 1459>>, <<1500, 1480>>,
    <<3000, 1000>>, <<3000, 2900>>, <<3000, 3023>> }

XOk == { File(N_f \o e, "x", sp[1], sp[2]) : e \in XExts, sp \in SizePairs }

XDefault == File(N_f \o <<".", "j", "s">>, "x", 3000, 1000)

XBad ==
  { [XDefault EXCEPT !.openOk = FALSE],
    [XDefault EXCEPT !.readOk = FALSE],
    [XDefault EXCEPT !.gzipOk = FALSE] }

BadDirs == {"w", "s", "t", "g", "d", "i"}

\* The root directory: idx says what "index.html" is at the root ("file",
\* "dir" or "none"), loc where the varying file x lies, bad which directory
\* os.ReadDir cannot read.  Entries are in os.ReadDir's order (by name).
Tree(idx, loc, x, bad) ==
  LET at(l) == IF loc = l THEN <<x>> ELSE <<>>
      D(tag, name, entries) == [Dir(name, entries) EXCEPT !.dirOk = (bad # tag)]
      t == D("t", <<"t">>, at("t") \o <<File(N_index, "ti", 3000, 1000)>>)
      s == D("s", <<"s">>,
             <<File(<<"_", "a">>, "sp", 3000, 1000), File(<<"a">>, "sa", 3000, 2900)>>
             \o at("s") \o <<t>>)
      g == D("g", <<".", "g">>, <<File(<<"a">>, "ga", 3000, 1000)>> \o at("g"))
      d == D("d", <<"_", "d">>, <<File(N_index, "di", 3000, 1000)>>)
      index == CASE idx = "file" -> <<File(N_index, "i", 3000, 1000)>>
                 [] idx = "dir" -> <<D("i", N_index, <<File(<<"a">>, "ia", 1400, 1200)>>)>>
                 [] OTHER -> <<>>
  IN D("w", <<"w">>,
       <<g, File(<<"_", "a">>, "p", 3000, 1000), d, File(<<"a">>, "a", 1500, 1480)>>
       \o at("root") \o index
       \o <<Symlink(<<"l">>, "l", 1400, 1200), s>>)

\* A few of XOk, for the places below the root.
XFew ==
  { XDefault,
    File(N_f, "x", 1500, 1480),
    File(N_f \o <<".", "p", "n", "g">>, "x", 3000, 1000) }

IndexKinds == {"file", "dir", "none"}

Trees ==
  { Tree(idx, "root", x, "none") : idx \in IndexKinds, x \in XOk \cup XBad }
  \cup
  { Tree(idx, loc, x, "none") :
      idx \in IndexKinds, loc \in {"s", "t", "g"}, x \in XFew \cup XBad }
  \cup
  { Tree(idx, loc, XDefault, bad) :
      idx \in IndexKinds, loc \in {"root", "s", "t", "g"}, bad \in BadDirs }

\* The trees of SpecConc: no fault, "index.html" a file, x at the root.
ConcTrees ==
  { Tree("file", "root", File(N_f \o <<".", "j", "s">>, "x", sp[1], sp[2]), "none") :
      sp \in {<<3000, 1000>>, <<1400, 1200>>} }

\* ---------------------------------------------------------------- requests

PathAlphabet == {"/", ".", "a"}

RECURSIVE SeqsUpTo(_, _)
SeqsUpTo(S, n) ==
  IF n = 0 THEN {<<>>}
  ELSE LET shorter == SeqsUpTo(S, n - 1)
       IN shorter \cup { Append(q, c) : q \in shorter, c \in S }

NamedPaths ==
  { defaultWebpath,
    <<"/", "s", "/", "a">>,
    <<"/", "s", "/", ".", ".", "/", "a">>,
    <<"s", "/", "/", "t", "/", ".", "/", "i", "n", "d", "e", "x", ".", "h", "t", "m", "l">>,
    <<"/", "_", "a">>,
    <<"/", ".", "g", "/", "a">>,
    <<"/", "l">>,
    <<"/", ".", ".", "/", ".", ".", "/", "w", "/", "a">>,
    <<"/", "n", "o">> }

\* r.URL.Path of the requests the model sends.
RequestPaths == SeqsUpTo(PathAlphabet, MaxPathLen) \cup NamedPaths

ConcPaths ==
  { <<"/", "a">>, <<"/", "f", ".", "j", "s">>, <<"/", "n", "o">>, <<"a", "/", ".", ".">> }

\* r.Header.Get("Accept-Encoding"): "" when the header is absent.
AcceptEncodings ==
  { <<>>,
    <<"g", "z", "i", "p">>,
    <<"b", "r">>,
    <<"b", "r", ",", " ", "g", "z", "i", "p">> }

ConcEncodings == { <<>>, <<"g", "z", "i", "p">> }

\* An http.ResponseWriter before the handler touched it.  header maps a key
\* to its values; status is meaningful once wroteHeader; body is what Write
\* accepted; calls are the codes WriteHeader was called with.
NoHeader == [k \in {} |-> <<>>]

NewResponseWriter ==
  [header |-> NoHeader, wroteHeader |-> FALSE, status |-> 0,
   body |-> <<>>, calls |-> <<>>]

\* wr.Header().Add(key, value)
HeaderAdd(wr, key, value) ==
  [wr EXCEPT !.header =
     IF key \in DOMAIN @ THEN [@ EXCEPT ![key] = Append(@, value)]
     ELSE @ @@ (key :> <<value>>)]

\* wr.WriteHeader(code): only the first status counts.
WriteHeader(wr, code) ==
  LET w1 == [wr EXCEPT !.calls = Append(@, code)]
  IN IF wr.wroteHeader THEN w1
     ELSE [w1 EXCEPT !.wroteHeader = TRUE, !.status = code]

\* wr.Write(bytes) accepting n bytes: an unset status is committed as 200
\* before any byte is written.
Write(wr, bytes, n) ==
  LET w1 == IF wr.wroteHeader THEN wr
            ELSE [wr EXCEPT !.wroteHeader = TRUE, !.status = StatusOK]
  IN [w1 EXCEPT !.body = Append(@, [bytes EXCEPT !.len = n])]

\* The outcomes of io.Copy(wr, bytes.NewReader(bytes)): <<n, failed>>.  No
\* Write is made for an empty payload.
CopyOutcomes(bytes) ==
  IF bytes.len = 0 THEN { <<0, FALSE>> }
  ELSE { <<bytes.len, FALSE>>, <<0, TRUE>>, <<bytes.len - 1, TRUE>> }

Copy(wr, bytes, outcome) ==
  IF bytes.len = 0 THEN wr ELSE Write(wr, bytes, outcome[1])

\* The headers a closure adds before copying (lines 178, 219-220).
IdentityHeaders(wr, h) == HeaderAdd(wr, "Content-Type", h.contentType)

GzipHeaders(wr, h) ==
  HeaderAdd(HeaderAdd(wr, "Content-Type", h.contentType), "Content-Encoding", "gzip")

\* FinalStatus asking for 200 whatever the copy returned.
FinalStatusAlwaysOK(failed) == StatusOK

\* The status a closure asks for after the copy (lines 180-186, 222-228).
FinalStatus(failed) == IF failed THEN StatusInternalServerError ELSE StatusOK

\* entry.identityHandler(wr) with the copy ending as outcome
identityHandler(wr, h, outcome) ==
  WriteHeader(Copy(IdentityHeaders(wr, h), h.bytes, outcome), FinalStatus(outcome[2]))

\* entry.gzipHandler(wr) with the copy ending as outcome
gzipHandler(wr, h, outcome) ==
  WriteHeader(Copy(GzipHeaders(wr, h), h.bytes, outcome), FinalStatus(outcome[2]))

\* Normalize without the call of path.Clean.
NormalizeUncleaned(path) == IF IsAbs(path) THEN path ELSE <<"/">> \o path

\* Lines 53-58: the path looked up first.
Normalize(path) == Clean(IF IsAbs(path) THEN path ELSE <<"/">> \o path)

\* Resolve without the fallback to "/index.html".
ResolveNoFallback(c, p) == IF p \in DOMAIN c THEN <<p>> ELSE <<>>

\* Lines 60-64: the key whose entry is served, <<>> when there is none.
Resolve(c, p) ==
  IF p \in DOMAIN c THEN <<p>>
  ELSE IF defaultWebpath \in DOMAIN c THEN <<defaultWebpath>>
  ELSE <<>>

\* UseGzip without consulting Accept-Encoding.
UseGzipUnasked(entry, ae) == entry.gzipHandler # <<>>

\* Line 72: whether the gzip closure is the one called.
UseGzip(entry, ae) ==
  entry.gzipHandler # <<>> /\ Contains(ae, <<"g", "z", "i", "p">>)

\* Line 104: whether cacheEntry.ServeHTTP calls the gzip closure.
EntryUsesGzip(ce, ae) ==
  ce.shouldServeCompressed /\ Contains(ae, <<"g", "z", "i", "p">>)

IdleRequest ==
  [pc |-> "idle", path |-> <<>>, ae |-> <<>>, key |-> <<>>, p |-> <<>>,
   entry |-> <<>>,
   rep |-> "none", outcome |-> <<>>, wr |-> NewResponseWriter]

\* ------------------------------------------------------------------ state

VARIABLES
  fs,       \* the directory NewHandler is given (the environment's)
  phase,    \* "new" before NewHandler ran, "returned" after
  walk,     \* what appendDirEntries returned and logged
  cache,    \* handler.cache; <<>> while there is no handler
  handler,  \* NewHandler's first result: "handler" or "nil"
  err,      \* NewHandler's second result: "nil" or the error
  fsCalls,  \* os.ReadDir and os.Open calls made so far
  reqs      \* the requests in flight, each with its http.ResponseWriter

vars == <<fs, phase, walk, cache, handler, err, fsCalls, reqs>>

RootDir == <<"w">>

InitWith(trees, slots) ==
  /\ fs \in trees
  /\ phase = "new"
  /\ walk = WalkState(<<>>, "nil", <<>>, 0)
  /\ cache = <<>>
  /\ handler = "nil"
  /\ err = "nil"
  /\ fsCalls = 0
  /\ reqs = [i \in slots |-> IdleRequest]

Init == InitWith(Trees, {1})

InitConc == InitWith(ConcTrees, 1..MaxReq)

\* NewHandler(dir), lines 25-43.
NewHandler ==
  /\ phase = "new"
  /\ LET r == NewHandlerResult(RootDir, fs)
     IN /\ walk' = r.st
        /\ cache' = r.cache
        /\ handler' = r.handler
        /\ err' = r.err
        /\ fsCalls' = fsCalls + r.st.fsCalls
  /\ phase' = "returned"
  /\ UNCHANGED <<fs, reqs>>

\* The server hands request i, with URL path and Accept-Encoding value, to the
\* handler NewHandler returned.
Arrive(i, path, ae) ==
  /\ handler = "handler"
  /\ reqs[i].pc = "idle"
  /\ reqs' = [reqs EXCEPT ![i] =
                [IdleRequest EXCEPT !.pc = "ServeHTTP", !.path = path, !.ae = ae]]
  /\ UNCHANGED <<fs, phase, walk, cache, handler, err, fsCalls>>

\* A lookup that stores the fallback under the path that missed.
CacheAfterLookupMemoized(c, p) ==
  IF p \in DOMAIN c \/ defaultWebpath \notin DOMAIN c THEN c
  ELSE (p :> c[defaultWebpath]) @@ c

\* What the lookup of ServeHTTP leaves the cache as: it only reads it.
CacheAfterLookup(c, p) == c

\* handler.ServeHTTP, lines 51-72: normalize, look up, fall back, and pick
\* the closure; or answer 500 when even the fallback is missing.
Lookup(i) ==
  /\ reqs[i].pc = "ServeHTTP"
  /\ LET r == reqs[i]
         key == Normalize(r.path)
         k == Resolve(cache, key)
     IN /\ reqs' = [reqs EXCEPT ![i] =
             IF k = <<>>
             THEN [r EXCEPT !.pc = "done", !.key = key, !.p = defaultWebpath,
                            !.wr = WriteHeader(@, StatusInternalServerError)]
             ELSE [r EXCEPT !.pc = "handler", !.key = key, !.p = k[1],
                            !.entry = <<cache[k[1]]>>,
                            !.rep = IF UseGzip(cache[k[1]], r.ae)
                                    THEN "gzip" ELSE "identity"]]
        /\ cache' = CacheAfterLookup(cache, key)
  /\ UNCHANGED <<fs, phase, walk, handler, err, fsCalls>>

\* Lines 73 and 77: the chosen closure runs; the copy ends as the connection
\* lets it.
Handle(i) ==
  /\ reqs[i].pc = "handler"
  /\ LET r == reqs[i]
         entry == r.entry[1]
         h == IF r.rep = "gzip" THEN entry.gzipHandler[1] ELSE entry.identityHandler[1]
     IN \E outcome \in CopyOutcomes(h.bytes) :
          reqs' = [reqs EXCEPT ![i] =
                     [r EXCEPT !.pc = "done", !.outcome = outcome,
                               !.wr = IF r.rep = "gzip"
                                      THEN gzipHandler(@, h, outcome)
                                      ELSE identityHandler(@, h, outcome)]]
  /\ UNCHANGED <<fs, phase, walk, cache, handler, err, fsCalls>>

\* The response is on its way; the slot takes the next request.
Finish(i) ==
  /\ reqs[i].pc = "done"
  /\ reqs' = [reqs EXCEPT ![i] = IdleRequest]
  /\ UNCHANGED <<fs, phase, walk, cache, handler, err, fsCalls>>

\* The actions over every request slot.
ArriveAny ==
  \E i \in DOMAIN reqs :
    \E path \in RequestPaths \cup DOMAIN cache, ae \in AcceptEncodings :
      Arrive(i, path, ae)

ArriveConc ==
  \E i \in DOMAIN reqs :
    \E path \in ConcPaths, ae \in ConcEncodings : Arrive(i, path, ae)

LookupAny == \E i \in DOMAIN reqs : Lookup(i)

HandleAny == \E i \in DOMAIN reqs : Handle(i)

FinishAny == \E i \in DOMAIN reqs : Finish(i)

Next ==
  \/ NewHandler
  \/ ArriveAny
  \/ LookupAny
  \/ HandleAny
  \/ FinishAny

Spec == Init /\ [][Next]_vars

NextConc ==
  \/ NewHandler
  \/ ArriveConc
  \/ LookupAny
  \/ HandleAny
  \/ FinishAny

SpecConc == InitConc /\ [][NextConc]_vars

\* ------------------------------------------------ the tree, as a set

\* Every entry below directory d, hidden ones included, with the names
\* leading to it from the root.
RECURSIVE EntriesUnder(_, _)
EntriesUnder(prefix, d) ==
  UNION { LET e == d.entries[i]
              names == Append(prefix, e.name)
          IN {[names |-> names, node |-> e]}
             \cup (IF e.kind = "dir" THEN EntriesUnder(names, e) ELSE {})
        : i \in 1..Len(d.entries) }

AllEntries == EntriesUnder(<<>>, fs)

\* "/" + the names joined with "/".
RECURSIVE SlashJoined(_)
SlashJoined(names) ==
  IF names = <<>> THEN <<>>
  ELSE <<"/">> \o Head(names) \o SlashJoined(Tail(names))

\* No component of the path starts with "." or "_".
Published(names) ==
  \A j \in 1..Len(names) : names[j][1] \notin {".", "_"}

PreCompressedTypes ==
  {"image/jpeg", "image/png", "image/gif", "audio/mpeg", "video/mp4"}

\* The entry of the tree a record was built from.
SourceOf(ce) == CHOOSE n \in AllEntries : SlashJoined(n.names) = ce.urlpath

Records == { walk.slice[i] : i \in 1..Len(walk.slice) }

\* Requests whose lookup is over, and the finished ones among them.
Resolved == { i \in DOMAIN reqs : reqs[i].pc \in {"handler", "done"} /\ reqs[i].entry # <<>> }
Served == { i \in Resolved : reqs[i].pc = "done" }

\* ------------------------------------------------------------------ claims

\* C1: every cached file, with plain size P, gzip size C and content type T,
\* has shouldServeCompressed true iff (P div 1460) > (C div 1460) and T is
\* not one of the pre-compressed types.
C1_CompressIffPacketSaved ==
  \A ce \in Records :
    LET f == SourceOf(ce).node
    IN ce.shouldServeCompressed <=>
         /\ (f.len \div 1460) > (f.gzlen \div 1460)
         /\ ce.contentType \notin PreCompressedTypes

\* C2: a handler exists only with "/index.html" in its cache; a build that
\* yields no record with urlpath "/index.html" ends in an error and a nil
\* handler.
C2_HandlerOnlyWithIndex ==
  /\ handler = "handler" => defaultWebpath \in DOMAIN cache
  /\ (phase = "returned" /\ ~\E ce \in Records : ce.urlpath = defaultWebpath)
       => (handler = "nil" /\ err # "nil")

\* C2's case: the walk succeeded on a tree without a root index.html, and
\* NewHandler returned the error.
C2_Witness ==
  /\ phase = "returned"
  /\ walk.err = "nil"
  /\ Records # {}
  /\ \E n \in AllEntries : n.names = <<<<"s">>, <<"t">>, N_index>>
  /\ handler = "nil"
  /\ err = "root not found"

\* The keys a successful build must hold when only regular files count.
RegularFileKeys ==
  { SlashJoined(n.names) : n \in { m \in AllEntries : m.node.kind = "file" /\ Published(m.names) } }

\* The keys when every entry that is not a directory counts.
NonDirKeys ==
  { SlashJoined(n.names) : n \in { m \in AllEntries : m.node.kind # "dir" /\ Published(m.names) } }

BuildSucceeded == phase = "returned" /\ walk.err = "nil"

\* C3 as stated: after a successful build the cache keys are exactly the
\* "/"-joined relative paths of the regular files with no component starting
\* with "." or "_", one record each.
C3_KeysAreRegularFiles ==
  BuildSucceeded =>
    /\ { ce.urlpath : ce \in Records } = RegularFileKeys
    /\ Len(walk.slice) = Cardinality(RegularFileKeys)
    /\ handler = "handler" => DOMAIN cache = RegularFileKeys

\* C3 amended: the same, of the entries that are not directories (regular
\* files, and symbolic links and the like, which IsDir does not report).
C3_KeysAreNonDirEntries ==
  BuildSucceeded =>
    /\ { ce.urlpath : ce \in Records } = NonDirKeys
    /\ Len(walk.slice) = Cardinality(NonDirKeys)
    /\ handler = "handler" => DOMAIN cache = NonDirKeys
    /\ \A n \in AllEntries :
         ~Published(n.names) => SlashJoined(n.names) \notin DOMAIN cache

\* C3's case: a handler built over a tree with files below "."- and
\* "_"-prefixed entries, nested directories and a symbolic link.
C3_Witness ==
  /\ handler = "handler"
  /\ \E n \in AllEntries : n.node.kind = "file" /\ ~Published(n.names) /\ Len(n.names) = 2
  /\ \E n \in AllEntries : n.node.kind = "file" /\ Published(n.names) /\ Len(n.names) = 3
  /\ \E n \in AllEntries : n.node.kind = "symlink" /\ SlashJoined(n.names) \in DOMAIN cache

\* C4: a request whose normalized path is a key is served from that key's
\* record, any other from the "/index.html" record, and the status is 200.
C4_ServedFromKeyOrIndex ==
  /\ \A i \in DOMAIN reqs :
       reqs[i].pc \in {"handler", "done"} =>
         /\ reqs[i].entry # <<>>
         /\ reqs[i].key \in DOMAIN cache => reqs[i].entry[1] = cache[reqs[i].key]
         /\ reqs[i].key \notin DOMAIN cache => reqs[i].entry[1] = cache[defaultWebpath]
  /\ \A i \in Served :
       /\ reqs[i].wr.status = 200
       /\ \A j \in 1..Len(reqs[i].wr.body) :
            reqs[i].wr.body[j].id = reqs[i].entry[1].identityHandler[1].bytes.id

\* C4's case: a finished request for an unknown path, answered from the
\* index record.
C4_Witness ==
  \E i \in Served :
    /\ reqs[i].key \notin DOMAIN cache
    /\ reqs[i].entry[1].urlpath = defaultWebpath
    /\ reqs[i].wr.status = 200
    /\ reqs[i].wr.body # <<>>

\* Whether a header map holds exactly the value v under key k.
HasHeader(wr, k, v) == k \in DOMAIN wr.header /\ wr.header[k] = <<v>>

\* C5: the gzip representation is sent iff the record's shouldServeCompressed
\* is true and Accept-Encoding contains "gzip"; exactly then the response has
\* Content-Encoding: gzip and the compressed bytes, and otherwise the plain
\* bytes and no Content-Encoding.
C5_GzipIffShouldAndAccepted ==
  \A i \in Served :
    LET r == reqs[i]
        ce == r.entry[1]
        sel == ce.shouldServeCompressed /\ Contains(r.ae, <<"g", "z", "i", "p">>)
        complete == ~r.outcome[2]
    IN /\ sel <=> HasHeader(r.wr, "Content-Encoding", "gzip")
       /\ ~sel => "Content-Encoding" \notin DOMAIN r.wr.header
       /\ \A j \in 1..Len(r.wr.body) :
            r.wr.body[j].enc = (IF sel THEN "gzip" ELSE "identity")
       /\ (sel /\ complete) =>
            r.wr.body = <<Bytes(SourceOf(ce).node.id, "gzip", SourceOf(ce).node.gzlen)>>
       /\ (~sel /\ complete /\ ce.identitySize > 0) =>
            r.wr.body = <<Bytes(SourceOf(ce).node.id, "identity", SourceOf(ce).node.len)>>
       /\ (~sel /\ ce.identitySize = 0) => r.wr.body = <<>>

\* C5's case: a record marked for compression, served once compressed to a
\* client that accepts gzip.
C5_Witness ==
  \E i \in Served :
    /\ reqs[i].entry[1].shouldServeCompressed
    /\ reqs[i].ae = <<"b", "r", ",", " ", "g", "z", "i", "p">>
    /\ ~reqs[i].outcome[2]
    /\ HasHeader(reqs[i].wr, "Content-Encoding", "gzip")

\* The elements of a path between its "/" separators.
RECURSIVE SplitSlash(_)
SplitSlash(p) ==
  IF \A j \in 1..Len(p) : p[j] # "/" THEN <<p>>
  ELSE LET k == CHOOSE j \in 1..Len(p) :
                  p[j] = "/" /\ \A m \in 1..(j - 1) : p[m] # "/"
       IN <<SubSeq(p, 1, k - 1)>> \o SplitSlash(SubSeq(p, k + 1, Len(p)))

\* Absolute, with no ".", ".." or empty element (but for "/" itself).
IsCleanAbsolute(k) ==
  LET segs == SplitSlash(k)
  IN /\ Len(k) >= 1 /\ k[1] = "/"
     /\ \A j \in 2..Len(segs) :
          /\ segs[j] # <<".">>
          /\ segs[j] # <<".", ".">>
          /\ segs[j] = <<>> => k = <<"/">>

\* C6: whatever the request path, the key looked up is absolute and cleaned,
\* with no ".." element; the request resolves to an existing key, that key or
\* "/index.html"; and no request makes a file system call.
C6_LookupKeyIsCleanAbsolute ==
  /\ \A i \in DOMAIN reqs :
       reqs[i].pc \in {"handler", "done"} =>
         /\ IsCleanAbsolute(reqs[i].key)
         /\ reqs[i].p \in DOMAIN cache
         /\ reqs[i].p = reqs[i].key \/ reqs[i].p = defaultWebpath
         /\ reqs[i].entry = <<cache[reqs[i].p]>>
  /\ phase = "returned" => fsCalls = walk.fsCalls

\* C6's case: "/../../w/a", which names a file of the tree from outside the
\* root, was looked up as "/w/a" and answered from the index record.
C6_Witness ==
  \E i \in Served :
    /\ reqs[i].path = <<"/", ".", ".", "/", ".", ".", "/", "w", "/", "a">>
    /\ reqs[i].key = <<"/", "w", "/", "a">>
    /\ reqs[i].p = defaultWebpath
    /\ fsCalls = walk.fsCalls

\* C7: a record whose content type is empty is answered without a
\* Content-Type header, plain or compressed.
C7_NoContentTypeWhenUnknown ==
  \A i \in Served :
    reqs[i].entry[1].contentType = "" => "Content-Type" \notin DOMAIN reqs[i].wr.header

\* The entries that make the build fail when the walk reaches them.
Faulty(node) ==
  IF node.kind = "dir" THEN ~node.dirOk
  ELSE ~node.openOk \/ ~node.readOk \/ ~node.gzipOk

FaultyPublished ==
  { n \in AllEntries \cup {[names |-> <<>>, node |-> fs]} :
      Published(n.names) /\ Faulty(n.node) }

FPathOf(n) == RootDir \o SlashJoined(n.names)

\* C8: when a directory cannot be read, or a file cannot be opened, read or
\* compressed, at any depth, the walk ends at that entry and NewHandler
\* returns that error and no handler: nothing collected before is returned.
C8_FailureAbortsBuild ==
  (phase = "returned" /\ FaultyPublished # {}) =>
    /\ handler = "nil"
    /\ err \in {"read directory", "open", "read", "gzip"}
    /\ DOMAIN cache = {}
    /\ walk.slice = <<>>
    /\ walk.log # <<>>
    /\ \E n \in FaultyPublished :
         /\ walk.log[Len(walk.log)].fpath = FPathOf(n)
         /\ walk.log[Len(walk.log)].ev \in {"reading directory", "found file"}
    /\ \A j \in 1..(Len(walk.log) - 1) :
         \A n \in FaultyPublished : walk.log[j].fpath # FPathOf(n)

\* C8's case: a file two directories down cannot be read, after other files
\* were cached.
C8_Witness ==
  /\ phase = "returned"
  /\ \E n \in FaultyPublished : Len(n.names) = 3 /\ ~n.node.readOk
  /\ \E j \in 1..Len(walk.log) : walk.log[j].ev = "cached file"
  /\ handler = "nil"
  /\ err = "read"

\* C9: a record of a pre-compressed content type is not marked for
\* compression and has no gzip closure, whatever its sizes.
C9_PreCompressedNeverGzipped ==
  /\ \A ce \in Records :
       ce.contentType \in PreCompressedTypes =>
         ~ce.shouldServeCompressed /\ ce.gzipHandler = <<>>
  /\ \A k \in DOMAIN cache :
       cache[k].contentType \in PreCompressedTypes =>
         ~cache[k].shouldServeCompressed /\ cache[k].gzipHandler = <<>>

\* C9's case: a 3000-byte GIF whose gzip form has 1000 bytes is cached.
C9_Witness ==
  \E k \in DOMAIN cache :
    /\ cache[k].contentType = "image/gif"
    /\ cache[k].identitySize = 3000
    /\ SourceOf(cache[k]).node.gzlen = 1000

\* The response a request gets when it is the only one: from the cache as
\* the build left it.
ResponseAlone(path, ae, outcome) ==
  LET c0 == CacheOf(walk.slice)
      ce == c0[Resolve(c0, Normalize(path))[1]]
  IN IF UseGzip(ce, ae)
     THEN gzipHandler(NewResponseWriter, ce.gzipHandler[1], outcome)
     ELSE identityHandler(NewResponseWriter, ce.identityHandler[1], outcome)

\* C10: with any number of requests interleaved, failing ones included, the
\* cache stays what the build made it, and each response is the one the
\* request gets when alone.
C10_CacheUnchangedByRequests ==
  handler = "handler" =>
    /\ cache = CacheOf(walk.slice)
    /\ \A i \in DOMAIN reqs :
         reqs[i].pc = "done" =>
           reqs[i].wr = ResponseAlone(reqs[i].path, reqs[i].ae, reqs[i].outcome)

\* C10's case: a request whose copy failed is done while another, for a path
\* that is no key, is between its lookup and its closure.
C10_Witness ==
  \E i, j \in DOMAIN reqs :
    /\ i # j
    /\ reqs[i].pc = "done" /\ reqs[i].outcome[2]
    /\ reqs[j].pc = "handler" /\ reqs[j].key \notin DOMAIN cache

\* The gzip stream of an entry's bytes, and gunzip: the bytes a complete
\* stream is the encoding of, <<>> when the stream is not one (an error).
GzipStreamOf(node) == [id |-> node.id, enc |-> "gzip", len |-> node.gzlen]

Gunzip(g) ==
  LET src == { n \in AllEntries : n.node.kind # "dir" /\ GzipStreamOf(n.node) = g }
  IN IF src = {} THEN <<>>
     ELSE LET n == CHOOSE m \in src : TRUE
          IN <<[id |-> n.node.id, enc |-> "identity", len |-> n.node.len]>>

C12_NoTerminalFailure ==
  \A i \in DOMAIN reqs :
    /\ reqs[i].pc # "idle" => Resolve(cache, Normalize(reqs[i].path)) # <<>>
    /\ reqs[i].pc = "done" =>
         /\ reqs[i].entry # <<>>
         /\ reqs[i].wr.calls # <<StatusInternalServerError>> \/ reqs[i].outcome # <<>>

\* C12's case: the first lookup missed and the request was answered all the
\* same, with 200 the only status asked for.
C12_Witness ==
  \E i \in DOMAIN reqs :
    /\ reqs[i].pc = "done"
    /\ reqs[i].path = <<"/", "n", "o">>
    /\ reqs[i].key \notin DOMAIN cache
    /\ reqs[i].entry # <<>>
    /\ reqs[i].wr.calls = <<200>>

\* The response writer of a finished request as it was when io.Copy returned.
AfterCopy(r) ==
  LET h == IF r.rep = "gzip" THEN r.entry[1].gzipHandler[1]
           ELSE r.entry[1].identityHandler[1]
  IN Copy(IF r.rep = "gzip" THEN GzipHeaders(NewResponseWriter, h)
          ELSE IdentityHeaders(NewResponseWriter, h),
          h.bytes, r.outcome)

\* C13: serving a record, plain or compressed: when the body write succeeds
\* the status is 200; when it fails with no status committed yet the status
\* is 500; and 200 is never asked for after a failed write (500 is).
C13_StatusFollowsWrite ==
  \A i \in Served :
    LET r == reqs[i]
        failed == r.outcome[2]
    IN /\ ~failed => (r.wr.status = 200 /\ r.wr.calls = <<200>>)
       /\ (failed /\ ~AfterCopy(r).wroteHeader) => r.wr.status = 500
       /\ failed => r.wr.calls = <<500>>

\* C13's case: the copy of a compressed payload failed one byte short; the
\* closure asked for 500.
C13_Witness ==
  \E i \in Served :
    /\ reqs[i].rep = "gzip"
    /\ reqs[i].outcome[2]
    /\ reqs[i].outcome[1] = reqs[i].entry[1].gzipHandler[1].bytes.len - 1
    /\ reqs[i].wr.calls = <<500>>
    /\ reqs[i].wr.wroteHeader

\* C14: a record keeps its gzip closure iff shouldServeCompressed; so
\* handler.ServeHTTP (gzipHandler != nil) and cacheEntry.ServeHTTP
\* (shouldServeCompressed) pick the same closure for every Accept-Encoding,
\* and neither calls a nil one.
C14_GzipHandlerIffShould ==
  /\ \A ce \in Records \cup { cache[k] : k \in DOMAIN cache } :
       /\ ce.gzipHandler # <<>> <=> ce.shouldServeCompressed
       /\ ce.identityHandler # <<>>
       /\ \A ae \in AcceptEncodings :
            /\ UseGzip(ce, ae) <=> EntryUsesGzip(ce, ae)
            /\ EntryUsesGzip(ce, ae) => ce.gzipHandler # <<>>
  /\ \A i \in Resolved :
       /\ reqs[i].rep = (IF EntryUsesGzip(reqs[i].entry[1], reqs[i].ae)
                         THEN "gzip" ELSE "identity")
       /\ reqs[i].rep = "gzip" => reqs[i].entry[1].gzipHandler # <<>>

\* C14's case: the cache holds a record with the closure and one without,
\* and a request that accepts gzip got the one without served plain.
C14_Witness ==
  /\ \E k \in DOMAIN cache : cache[k].gzipHandler # <<>>
  /\ \E i \in Served :
       /\ reqs[i].entry[1].gzipHandler = <<>>
       /\ ~reqs[i].entry[1].shouldServeCompressed
       /\ reqs[i].ae = <<"g", "z", "i", "p">>
       /\ reqs[i].rep = "identity"

\* C15: a file of fewer than 1460 bytes is never marked for compression and
\* is served plain whatever its gzip size and the request's Accept-Encoding.
C15_SmallFilesServedPlain ==
  /\ \A ce \in Records :
       ce.identitySize < 1460 => (~ce.shouldServeCompressed /\ ce.gzipHandler = <<>>)
  /\ \A i \in Resolved :
       reqs[i].entry[1].identitySize < 1460 =>
         /\ reqs[i].rep = "identity"
         /\ "Content-Encoding" \notin DOMAIN reqs[i].wr.header
         /\ \A j \in 1..Len(reqs[i].wr.body) : reqs[i].wr.body[j].enc = "identity"

\* C15's case: a 1400-byte file with a 1200-byte gzip form, asked for with
\* Accept-Encoding: gzip, was written plain and completely.
C15_Witness ==
  \E i \in Served :
    /\ reqs[i].entry[1].identitySize = 1400
    /\ SourceOf(reqs[i].entry[1]).node.gzlen = 1200
    /\ reqs[i].ae = <<"g", "z", "i", "p">>
    /\ reqs[i].wr.body = <<[id |-> SourceOf(reqs[i].entry[1]).node.id,
                            enc |-> "identity", len |-> 1400]>>

\* C16: a record's compressedSize is 0 when shouldServeCompressed is false,
\* and the length of the gzip payload when it is true.
C16_CompressedSizeZeroOrLength ==
  \A ce \in Records :
    /\ ~ce.shouldServeCompressed => ce.compressedSize = 0
    /\ ce.shouldServeCompressed => ce.compressedSize = SourceOf(ce).node.gzlen

====
